---- MODULE Spec2Model ----
(***************************************************************************)
(* Strategy core of the Cassandra repository: the Backtester simulation    *)
(* engine (src/backtester.py), the signal-to-weight translator              *)
(* (src/portfolio_construction.py) and the walk-forward prediction engine  *)
(* (src/modeling.py).                                                       *)
(*                                                                         *)
(* Numbers are exact rationals <<numerator, denominator>> in lowest terms  *)
(* with a positive denominator; <<0, 0>> stands for NaN, <<1, 0>> and      *)
(* <<-1, 0>> for the two infinities.                                       *)
(***************************************************************************)
EXTENDS Integers, Sequences, FiniteSets, TLC

\* ------------------------------------------------------------------ bounds
NDates == 3          \* length of the price index of the backtest
NPfDates == 1        \* length of the date index of the translator's tables
NRows == 4           \* rows of the table given to generate_predictions
MomentumLookback == 1   \* config.MOMENTUM_LOOKBACK, scaled to tables of NRows rows

\* ------------------------------------------------------- exact arithmetic
\* (a value used more than once is passed as an operator argument, which TLC
\* evaluates once; an operator named ...By takes such values)
Abs(x) == IF x < 0 THEN -x ELSE x

RECURSIVE GCD(_, _)
GCD(a, b) == IF b = 0 THEN a ELSE GCD(b, a % b)

NaN == <<0, 0>>
IsNaN(x) == x = NaN
\* +inf and -inf; arithmetic is done on finite operands only and anything
\* else gives NaN (an infinity is replaced before it meets an operation)
Inf == <<1, 0>>
NegInf == <<-1, 0>>
NonFinite(x) == x[2] = 0

RatBy(n, d, g) == IF d < 0 THEN <<(-n) \div g, (-d) \div g>> ELSE <<n \div g, d \div g>>
Rat(n, d) == RatBy(n, d, GCD(Abs(n), Abs(d)))

Zero == <<0, 1>>
One == <<1, 1>>
Half == <<1, 2>>

\* sums and comparisons go through the least common denominator and products
\* cancel crosswise first, so that intermediate integers stay small
RAddBy(x, y, g) == Rat(x[1] * (y[2] \div g) + y[1] * (x[2] \div g), x[2] * (y[2] \div g))
RAdd(x, y) == IF NonFinite(x) \/ NonFinite(y) THEN NaN ELSE RAddBy(x, y, GCD(x[2], y[2]))
RNeg(x) == IF NonFinite(x) THEN NaN ELSE <<-x[1], x[2]>>
RSub(x, y) == RAdd(x, RNeg(y))
RMulBy(x, y, g, h) == Rat((x[1] \div g) * (y[1] \div h), (x[2] \div h) * (y[2] \div g))
RMul(x, y) == IF NonFinite(x) \/ NonFinite(y) THEN NaN
              ELSE RMulBy(x, y, GCD(Abs(x[1]), y[2]), GCD(Abs(y[1]), x[2]))
\* float division never raises: 0/0 is NaN and x/0 an infinity
RDiv(x, y) == IF NonFinite(x) \/ NonFinite(y) THEN NaN
              ELSE IF y[1] = 0 THEN (IF x[1] = 0 THEN NaN ELSE IF x[1] > 0 THEN Inf ELSE NegInf)
              ELSE RMul(x, Rat(y[2], y[1]))
RAbs(x) == IF NonFinite(x) THEN NaN ELSE <<Abs(x[1]), x[2]>>
\* comparisons with NaN are False, as in IEEE arithmetic
RLessBy(x, y, g) == x[1] * (y[2] \div g) < y[1] * (x[2] \div g)
RLess(x, y) == ~NonFinite(x) /\ ~NonFinite(y) /\ RLessBy(x, y, GCD(x[2], y[2]))
RLeq(x, y) == ~NonFinite(x) /\ ~NonFinite(y) /\ ~RLess(y, x)

\* pandas Series.sum(): NaN entries are skipped (skipna=True)
RECURSIVE SumSeq(_)
SumSeq(s) == IF s = <<>> THEN Zero
             ELSE IF IsNaN(s[1]) THEN SumSeq(Tail(s))
             ELSE RAdd(s[1], SumSeq(Tail(s)))

\* pandas fillna(0)
FillNa0(x) == IF IsNaN(x) THEN Zero ELSE x

Range(s) == {s[i] : i \in DOMAIN s}

\* f itself, held as a table: TLC evaluates a function constructor anew at every
\* application, a table once
Table(f) == f @@ f
Table2(f) == Table([x \in DOMAIN f |-> Table(f[x])])

\* ============================================================ Backtester
VARIABLES
    prices,            \* self.prices: date -> column -> price
    target_weights,    \* self.target_weights: its own dates -> column -> weight
    transaction_cost,  \* self.transaction_cost (decimal rate)
    slippage,          \* self.slippage (decimal rate)
    results,           \* self.results: net return per date (<<>> before a run)
    turnover,          \* self.turnover: turnover per date (<<>> before a run)
    metrics,           \* self.metrics (<<>> while empty)
    prev_weights,      \* run_backtest's local prev_weights as the loop left it
    report,            \* value last returned by get_backtest_results_for_report
    runs,              \* history: completed run_backtest calls (0, 1, 2 = several)
    first_results,     \* history: results of the first completed run
    first_turnover,    \* history: turnover of the first completed run
    cost_args,         \* history: <<transaction_cost_bps, slippage_bps>> as passed
    trace,             \* history: the locals of each iteration of the last run
    index_kind,        \* what self.prices.index holds: "datetime" or "string" dates
    results_index,     \* what self.results.index holds ("none" before a run)
    metrics_fresh      \* history: self.metrics was computed after the last run

btVars == <<prices, target_weights, transaction_cost, slippage, results, turnover,
            metrics, prev_weights, report, runs, first_results, first_turnover,
            cost_args, trace, index_kind, results_index, metrics_fresh>>

\* ------------------------------------- state of the two other components
VARIABLES
    predictions_df,    \* generate_target_portfolio's argument: date -> asset -> P(up)
    market,            \* what the function derives from prices_df, per date and asset
    portfolio,         \* the table generate_target_portfolio returned (<<>> before)
    pf_trace           \* history: the adjusted scores and fallback_days of the call

pfVars == <<predictions_df, market, portfolio, pf_trace>>

\* no call of the translator is in progress or was made
PfIdle ==
    /\ predictions_df = <<>>
    /\ market = <<>>
    /\ portfolio = <<>>
    /\ pf_trace = <<>>

VARIABLES
    full_dataset,      \* generate_predictions' argument: row -> features, target, price
    perturbed_dataset, \* a second argument, differing from the first in one row
    perturbed_row,     \* history: the row in which the two arguments differ
    windows,           \* train_window, retrain_every, min_train_window of the model
    predictions,       \* the series returned for full_dataset (<<>> before)
    perturbed_predictions, \* the series returned for perturbed_dataset
    models_by_asset,   \* self.models_by_asset: asset -> the model stored last
    wf_trace,          \* history: the steps of the walk of either call
    universe_dataset,  \* a table over the whole universe: asset -> its columns
    schedule,          \* how the walks of the assets are run, "none" when idle
    walks,             \* asset -> the locals of its walk and how far it got
    model_registry,    \* self.models_by_asset over the universe: asset -> model
    registry_writes,   \* history: asset -> assignments to its registry entry
    all_predictions,   \* the dictionary all_predictions: asset -> series
    outcome,           \* of the call: "none", "running", "returned", "raised"
    overlapped         \* history: a walk took a step while another was underway

uvVars == <<universe_dataset, schedule, walks, model_registry, registry_writes,
            all_predictions, outcome, overlapped>>

wfVars == <<full_dataset, perturbed_dataset, perturbed_row, windows, predictions,
            perturbed_predictions, models_by_asset, wf_trace, uvVars>>

\* no call over a universe is in progress or was made
UvIdle ==
    /\ universe_dataset = <<>>
    /\ schedule = "none"
    /\ walks = <<>>
    /\ model_registry = <<>>
    /\ registry_writes = <<>>
    /\ all_predictions = <<>>
    /\ outcome = "none"
    /\ overlapped = FALSE

WfIdle ==
    /\ full_dataset = <<>>
    /\ perturbed_dataset = <<>>
    /\ perturbed_row = 0
    /\ windows = <<>>
    /\ predictions = <<>>
    /\ perturbed_predictions = <<>>
    /\ models_by_asset = <<>>
    /\ wf_trace = <<>>
    /\ UvIdle

BtIdle ==
    /\ prices = <<>>
    /\ target_weights = <<>>
    /\ transaction_cost = <<>>
    /\ slippage = <<>>
    /\ results = <<>>
    /\ turnover = <<>>
    /\ metrics = <<>>
    /\ prev_weights = <<>>
    /\ report = <<>>
    /\ runs = 0
    /\ first_results = <<>>
    /\ first_turnover = <<>>
    /\ cost_args = <<>>
    /\ trace = <<>>
    /\ index_kind = "none"
    /\ results_index = "none"
    /\ metrics_fresh = FALSE

Dates == 1..NDates
PriceColumns == <<"A", "B">>
TargetColumns == <<"A", "B", "Cash">>
\* price rows of a table: between two dates an asset doubles, halves or stays
PriceRowSet == { [A |-> 1, B |-> 2], [A |-> 2, B |-> 1] }
PriceTables == [Dates -> PriceRowSet]
\* constructor arguments <<transaction_cost_bps, slippage_bps>>; an optional
\* argument is a sequence of length <= 1, <<>> being None
CostBpsSet == { <<0, <<>>>>, <<2500, <<5000>>>> }
BpsPerUnit == 10000

\* rows a target-weight table may hold on one of its dates (asset part)
TargetRowSet ==
    { [A |-> One, B |-> Zero], [A |-> Zero, B |-> One], [A |-> NaN, B |-> Half] }

WithCash(row) ==
    [c \in Range(TargetColumns) |->
        IF c = "Cash" THEN RSub(One, SumSeq(<<row.A, row.B>>)) ELSE row[c]]

\* Backtester.__init__: the aligned asset list
AssetList(target_columns, price_columns) ==
    SelectSeq(target_columns, LAMBDA c : c \in Range(price_columns))

asset_list == AssetList(TargetColumns, PriceColumns)

\* Backtester.__init__: bps -> decimal
TransactionCostRate(transaction_cost_bps) == Rat(transaction_cost_bps, BpsPerUnit)

ConfigSlippageBps == 0   \* getattr(config, 'SLIPPAGE_BPS', 0): config sets none

SlippageRate(slippage_bps) ==
    LET bps == IF slippage_bps = <<>> THEN ConfigSlippageBps ELSE slippage_bps[1]
    IN  Rat(bps, BpsPerUnit)

\* ---------------------------------------------- run_backtest: preparation
\* DataFrame.pct_change(): NaN on the first row, p[t]/p[t-1] - 1 afterwards
PctChange(p, t, c) ==
    IF t = 1 THEN NaN ELSE RDiv(Rat(p[t][c] - p[t - 1][c], 1), Rat(p[t - 1][c], 1))

\* returns = self.prices[self.asset_list].pct_change().fillna(0)
Returns(p) ==
    Table2([t \in Dates |-> [c \in Range(asset_list) |-> FillNa0(PctChange(p, t, c))]])

\* weights = self.target_weights[self.asset_list].reindex(returns.index)
Reindex(tw) ==
    [t \in Dates |-> [c \in Range(asset_list) |->
        IF t \in DOMAIN tw THEN tw[t][c] ELSE NaN]]

\* initial_nan_mask = weights.isna().all(axis=1)
InitialNanMask(w, t) == \A c \in Range(asset_list) : IsNaN(w[t][c])

\* weights.loc[initial_nan_mask] = 1.0 / len(self.asset_list)
EqualWeightFilled(w) ==
    [t \in Dates |-> IF InitialNanMask(w, t)
                     THEN [c \in Range(asset_list) |-> Rat(1, Len(asset_list))]
                     ELSE w[t]]

\* fillna(method='ffill'): a NaN takes the last earlier non-NaN of its column
RECURSIVE FFillAt(_, _, _)
FFillAt(w, t, c) ==
    IF ~IsNaN(w[t][c]) \/ t = 1 THEN w[t][c] ELSE FFillAt(w, t - 1, c)

\* weights = weights.fillna(method='ffill').fillna(0)
FFillNa0(w) ==
    Table2([t \in Dates |-> [c \in Range(asset_list) |-> FillNa0(FFillAt(w, t, c))]])

FilledWeights(tw) == FFillNa0(Table2(EqualWeightFilled(Reindex(tw))))

\* ------------------------------------------------------ run_backtest: loop
\* (variant: the weights the previous run ended with are kept)
InitialPrevWeights_Stale == prev_weights

\* prev_weights = pd.Series(0.0, index=self.asset_list)
InitialPrevWeights == [c \in Range(asset_list) |-> Zero]

\* (variant: the .abs() is left out)
Trades_Signed(target_w, prev) ==
    RDiv(SumSeq(Table([i \in DOMAIN asset_list |->
                          RSub(target_w[asset_list[i]], prev[asset_list[i]])])),
         <<2, 1>>)

\* (variant: the halving is left out)
Trades_Unhalved(target_w, prev) ==
    SumSeq(Table([i \in DOMAIN asset_list |->
                     RAbs(RSub(target_w[asset_list[i]], prev[asset_list[i]]))]))

\* trades = (target_w - prev_weights).abs().sum() / 2.0
Trades(target_w, prev) ==
    RDiv(SumSeq(Table([i \in DOMAIN asset_list |->
                          RAbs(RSub(target_w[asset_list[i]], prev[asset_list[i]]))])),
         <<2, 1>>)

\* gross_return = (prev_weights * returns.loc[t]).sum()
GrossReturn(prev, ret_t) ==
    SumSeq(Table([i \in DOMAIN asset_list |->
                     RMul(prev[asset_list[i]], ret_t[asset_list[i]])]))

\* net_return = gross_return - cost - slippage_cost
\* cost = trades * self.transaction_cost
Cost(trades, tc) == RMul(trades, tc)
\* slippage_cost = trades * self.slippage
SlippageCost(trades, sl) == RMul(trades, sl)

\* (variant: slippage is not deducted)
NetReturn_NoSlippage(gross_return, cost, slippage_cost) == RSub(gross_return, cost)

NetReturn(gross_return, cost, slippage_cost) ==
    RSub(RSub(gross_return, cost), slippage_cost)

\* (variant: the turnover itself is deducted instead of turnover * rate)
Iteration_TradesAsCost(prev, trades, gross_return, cost, slippage_cost) ==
    [turnover |-> trades,
     net_return |-> NetReturn(gross_return, trades, slippage_cost),
     held |-> prev, gross_return |-> gross_return, cost |-> cost]

\* what one iteration of `for t in returns.index` writes
Iteration(prev, trades, gross_return, cost, slippage_cost) ==
    [turnover |-> trades,
     net_return |-> NetReturn(gross_return, cost, slippage_cost),
     held |-> prev, gross_return |-> gross_return, cost |-> cost]

\* (variant: the day's own target weights earn the day's return)
IterationAt_SameDay(prev, target_w, ret_t, tc, sl, trades) ==
    Iteration(prev, trades, GrossReturn(target_w, ret_t), Cost(trades, tc),
              SlippageCost(trades, sl))

IterationAt(prev, target_w, ret_t, tc, sl, trades) ==
    Iteration(prev, trades, GrossReturn(prev, ret_t), Cost(trades, tc),
              SlippageCost(trades, sl))

\* the loop from date t on, entered with prev_weights = prev; the value is the
\* sequence of the iterations' records
RECURSIVE RunLoop(_, _, _, _, _, _)
RunLoop(t, prev, weights, returns, tc, sl) ==
    IF t > NDates THEN <<>>
    ELSE <<IterationAt(prev, weights[t], returns[t], tc, sl, Trades(weights[t], prev))>>
         \o RunLoop(t + 1, weights[t], weights, returns, tc, sl)

\* prev_weights when the loop has ended
FinalPrevWeights(start, weights) == IF NDates = 0 THEN start ELSE weights[NDates]

\* ------------------------------------------------- equity curve, metrics
\* Series.cumprod(): the running product, left to right
RECURSIVE CumProdFrom(_, _, _)
CumProdFrom(acc, s, i) ==
    IF i > Len(s) THEN <<>>
    ELSE <<RMul(acc, s[i])>> \o CumProdFrom(RMul(acc, s[i]), s, i + 1)

CumProd(s) == IF s = <<>> THEN <<>> ELSE <<s[1]>> \o CumProdFrom(s[1], s, 2)

\* (variant: returns are added up instead of compounded)
RECURSIVE CumSumFrom(_, _, _)
CumSumFrom(acc, s, i) ==
    IF i > Len(s) THEN <<>>
    ELSE <<RAdd(acc, s[i])>> \o CumSumFrom(RAdd(acc, s[i]), s, i + 1)

EquityCurve_Additive(res) == CumSumFrom(One, res, 1)

\* equity_curve = (1 + self.results).cumprod()
EquityCurve(res) == CumProd(Table([t \in DOMAIN res |-> RAdd(One, res[t])]))

RMax(x, y) == IF RLess(x, y) THEN y ELSE x
RMin(x, y) == IF RLess(y, x) THEN y ELSE x

\* Series.cummax()
RECURSIVE CumMaxFrom(_, _, _)
CumMaxFrom(acc, s, i) ==
    IF i > Len(s) THEN <<>>
    ELSE <<RMax(acc, s[i])>> \o CumMaxFrom(RMax(acc, s[i]), s, i + 1)

CumMax(s) == IF s = <<>> THEN <<>> ELSE <<s[1]>> \o CumMaxFrom(s[1], s, 2)

\* Series.min()
RECURSIVE MinSeq(_)
MinSeq(s) == IF Len(s) = 1 THEN s[1] ELSE RMin(s[1], MinSeq(Tail(s)))

\* max_drawdown = (equity_curve / equity_curve.cummax() - 1).min()
Drawdown(equity, rolling_max) ==
    Table([t \in DOMAIN equity |-> RSub(RDiv(equity[t], rolling_max[t]), One)])

MaxDrawdown(equity) == MinSeq(Drawdown(equity, CumMax(equity)))

CountIf(s, P(_)) == Cardinality({i \in DOMAIN s : P(s[i])})

\* Series.mean(); the mean of an empty series is NaN
Mean(s) == RDiv(SumSeq(s), Rat(Len(s), 1))

\* a number by its sign: -1, 0 or 1, NaN for a value that is none. A metric
\* built on a square root or on a fractional power is held by its sign.
Sign(x) ==
    IF NonFinite(x) THEN NaN
    ELSE IF x[1] > 0 THEN One ELSE IF x[1] < 0 THEN <<-1, 1>> ELSE Zero

AllEqual(s) == \A i \in DOMAIN s : s[i] = s[1]

\* the sign of Series.std(ddof=1): undefined under two observations, zero
\* when all are equal
StdSign(s) == IF Len(s) < 2 THEN NaN ELSE IF AllEqual(s) THEN Zero ELSE One

\* (equity_curve.index[-1] - equity_curve.index[0]).days, the dates of the
\* index being consecutive days
ElapsedDays(res) == Len(res) - 1

\* (variant: a final equity of exactly 1 is reported as nan)
Cagr_NaNWhenFlat(final_equity, n_days) ==
    IF n_days > 0 /\ final_equity # One
    THEN (IF RLess(final_equity, Zero) THEN NaN ELSE Sign(RSub(final_equity, One)))
    ELSE NaN

\* cagr = equity_curve.iloc[-1] ** (1 / n_years) - 1 if n_years > 0 else nan,
\* by its sign, which for a base >= 0 is the sign of base - 1; a negative
\* base under a fractional exponent gives nan
Cagr(final_equity, n_days) ==
    IF n_days > 0
    THEN (IF RLess(final_equity, Zero) THEN NaN ELSE Sign(RSub(final_equity, One)))
    ELSE NaN

\* sharpe_ratio = mean * 252 / (std * sqrt(252)) if volatility != 0 else nan
SharpeRatio(mean_return, volatility) ==
    IF volatility # Zero THEN Sign(RDiv(mean_return, volatility)) ELSE NaN

\* calmar_ratio = cagr / abs(max_drawdown) if max_drawdown != 0 else nan
CalmarRatio(cagr, max_drawdown) ==
    IF max_drawdown # Zero THEN Sign(RDiv(cagr, RAbs(max_drawdown))) ELSE NaN

\* downside_deviation, by its sign: nan without a negative return
DownsideDeviation(res) ==
    IF \E i \in DOMAIN res : RLess(res[i], Zero) THEN One ELSE NaN

\* sortino = mean * 252 / downside_deviation if downside_deviation and
\* downside_deviation != 0 else nan (nan is truthy and differs from 0)
Sortino(mean_return, downside_deviation) ==
    IF downside_deviation # Zero THEN Sign(RDiv(mean_return, downside_deviation)) ELSE NaN

RECURSIVE Insert(_, _)
Insert(x, s) ==
    IF s = <<>> THEN <<x>>
    ELSE IF RLeq(x, s[1]) THEN <<x>> \o s ELSE <<s[1]>> \o Insert(x, Tail(s))

RECURSIVE Sorted(_)
Sorted(s) == IF s = <<>> THEN <<>> ELSE Insert(s[1], Sorted(Tail(s)))

\* np.percentile(a, q), linear interpolation between the two nearest ranks
PercentileBy(a, lo, frac) ==
    IF frac = Zero THEN a[lo + 1]
    ELSE RAdd(a[lo + 1], RMul(frac, RSub(a[lo + 2], a[lo + 1])))
PercentileOn(a, q) ==
    PercentileBy(a, ((Len(a) - 1) * q) \div 100, Rat(((Len(a) - 1) * q) % 100, 100))
Percentile(s, q) == PercentileOn(Sorted(s), q)

\* var_95, cvar_95 and the Rachev ratio, given the 5th and 95th percentiles
TailMetrics(res, down_thresh, up_thresh, down_tail_mean) ==
    [ var_95 |-> RNeg(down_thresh),
      cvar_95 |-> down_tail_mean,
      rachev_ratio |->
          IF down_tail_mean # Zero
          THEN RDiv(Mean(SelectSeq(res, LAMBDA x : RLeq(up_thresh, x))), down_tail_mean)
          ELSE NaN ]

TailMetricsBy(res, down_thresh, up_thresh) ==
    TailMetrics(res, down_thresh, up_thresh,
                RNeg(Mean(SelectSeq(res, LAMBDA x : RLeq(x, down_thresh)))))

\* the tail metrics given the returns in ascending order
TailMetricsOn(res, sorted) ==
    TailMetricsBy(res, PercentileOn(sorted, 5), PercentileOn(sorted, 95))

\* the metrics of calculate_performance_metrics that are rational functions
\* of the two series
MetricsBy(res, turn, tc, sl, equity_curve) ==
    [ cumulative_return |-> RSub(equity_curve[Len(equity_curve)], One),
      max_drawdown |-> MaxDrawdown(equity_curve),
      hit_rate |-> Rat(CountIf(res, LAMBDA x : RLess(Zero, x)), Len(res)),
      total_turnover |-> SumSeq(turn),
      total_transaction_costs |-> SumSeq(Table([t \in DOMAIN turn |-> RMul(turn[t], tc)])),
      estimated_total_slippage |-> SumSeq(Table([t \in DOMAIN turn |-> RMul(turn[t], sl)])) ]

\* turnover.resample('M').sum().mean() inside try/except: the dates of the
\* model lie in one month and one quarter; resampling raises on an index
\* that holds no datetimes and the metric is nan
AvgPeriodTurnover(turn, turnover_index) ==
    IF turnover_index = "datetime" THEN SumSeq(turn) ELSE NaN

\* CAGR, volatility and the ratios built on them, and the turnover averages
RatioMetrics(res, turn, sl, base, mean_return, volatility, cagr, turnover_index) ==
    [ cagr |-> cagr,
      annualized_volatility |-> volatility,
      sharpe_ratio |-> SharpeRatio(mean_return, volatility),
      sortino_ratio |-> Sortino(mean_return, DownsideDeviation(res)),
      calmar_ratio |-> CalmarRatio(cagr, base.max_drawdown),
      average_annual_turnover |-> RMul(Mean(turn), <<252, 1>>),
      avg_monthly_turnover |-> AvgPeriodTurnover(turn, turnover_index),
      avg_quarterly_turnover |-> AvgPeriodTurnover(turn, turnover_index),
      estimated_annual_slippage |-> RMul(RMul(Mean(turn), <<252, 1>>), sl) ]

RatioMetricsOn(res, turn, sl, base, equity_curve, turnover_index) ==
    RatioMetrics(res, turn, sl, base, Mean(res), StdSign(res),
                 Cagr(equity_curve[Len(equity_curve)], ElapsedDays(res)), turnover_index)

BenchmarkTicker == "^GSPC"   \* config.BENCHMARK_TICKER

\* benchmark_ticker in self.prices.columns
HasBenchmark(p) == BenchmarkTicker \in DOMAIN p[1]

\* self.prices[benchmark_ticker].pct_change().reindex(self.results.index).fillna(0):
\* the index of the results holds datetimes by now, so over prices indexed by
\* anything else no label matches and every row is filled with 0
BenchReturns(p, price_index) ==
    Table([t \in DOMAIN p |->
        IF price_index = "datetime" THEN FillNa0(PctChange(p, t, BenchmarkTicker))
        ELSE Zero])

Deviations(s, m) == Table([i \in DOMAIN s |-> RSub(s[i], m)])

\* np.cov(x, y)[0, 1]: the sample covariance (N - 1 in the denominator)
Covariance(dx, dy) ==
    RDiv(SumSeq([i \in DOMAIN dx |-> RMul(dx[i], dy[i])]), Rat(Len(dx) - 1, 1))

\* np.var(y): the population variance (N in the denominator)
Variance(dy) == RDiv(SumSeq([i \in DOMAIN dy |-> RMul(dy[i], dy[i])]), Rat(Len(dy), 1))

\* beta = cov / var_bench if var_bench != 0 else nan
BetaBy(cov, var_bench) == IF var_bench # Zero THEN RDiv(cov, var_bench) ELSE NaN
BetaOn(dx, dy) == BetaBy(Covariance(dx, dy), Variance(dy))
Beta(res, bench) == BetaOn(Deviations(res, Mean(res)), Deviations(bench, Mean(bench)))

\* ir = excess.mean() * 252 / (excess.std(ddof=1) * sqrt(252)) if the
\* deviation != 0 else nan, by its sign
InformationRatioBy(excess, deviation) ==
    IF deviation # Zero THEN Sign(RDiv(Mean(excess), deviation)) ELSE NaN
InformationRatio(excess) == InformationRatioBy(excess, StdSign(excess))

\* (roll_excess_mean / roll_excess_std).iloc[-1] for a window of w rows, by
\* its sign: nan under w rows, and no guard against a zero deviation
Last(s, w) == SubSeq(s, Len(s) - w + 1, Len(s))
RollingIRBy(window) == RDiv(Sign(Mean(window)), StdSign(window))
RollingIR(excess, w) == IF Len(excess) < w THEN NaN ELSE RollingIRBy(Last(excess, w))

\* beta, info_ratio and rolling_info_ratio: the rolling entries exist only
\* when the benchmark column does
BenchmarkMetricsBy(res, bench, excess) ==
    [ beta |-> Beta(res, bench),
      information_ratio |-> InformationRatio(excess),
      information_ratio_21d |-> RollingIR(excess, 21),
      information_ratio_63d |-> RollingIR(excess, 63),
      information_ratio_126d |-> RollingIR(excess, 126),
      information_ratio_252d |-> RollingIR(excess, 252) ]
BenchmarkMetricsOn(res, bench) ==
    BenchmarkMetricsBy(res, bench, Table([t \in DOMAIN res |-> RSub(res[t], bench[t])]))
BenchmarkMetrics(res, p, price_index) ==
    IF HasBenchmark(p) THEN BenchmarkMetricsOn(res, BenchReturns(p, price_index))
    ELSE [beta |-> NaN, information_ratio |-> NaN]

\* the dictionary calculate_performance_metrics stores in self.metrics
MetricsOn(res, turn, tc, sl, p, turnover_index, equity_curve, base) ==
    base @@ RatioMetricsOn(res, turn, sl, base, equity_curve, turnover_index)
         @@ TailMetricsOn(res, Sorted(res))
         @@ BenchmarkMetrics(res, p, turnover_index)
MetricsFrom(res, turn, tc, sl, p, turnover_index, equity_curve) ==
    MetricsOn(res, turn, tc, sl, p, turnover_index, equity_curve,
              MetricsBy(res, turn, tc, sl, equity_curve))
Metrics(res, turn, tc, sl, p, turnover_index) ==
    MetricsFrom(res, turn, tc, sl, p, turnover_index, EquityCurve(res))

\* metrics.get(key, 0) on self.metrics
MetricsGet(m, key) == IF key \in DOMAIN m THEN m[key] ELSE Zero

\* the dictionary get_backtest_results_for_report returns (the dates of the
\* model lie in one month, so the best and the worst month are the sum)
Report(res, turn, m, tw) ==
    [ equity_curve |-> EquityCurve(res),
      daily_returns |-> res,
      metrics |-> [ CAGR |-> MetricsGet(m, "cagr"),
                    Total_Return |-> MetricsGet(m, "cumulative_return"),
                    Annual_Return |-> RMul(Mean(res), <<252, 1>>),
                    Annual_Volatility |-> MetricsGet(m, "annualized_volatility"),
                    Sharpe_Ratio |-> MetricsGet(m, "sharpe_ratio"),
                    Sortino_Ratio |-> MetricsGet(m, "sortino_ratio"),
                    Max_Drawdown |-> MetricsGet(m, "max_drawdown"),
                    Calmar_Ratio |-> MetricsGet(m, "calmar_ratio"),
                    VaR_95 |-> MetricsGet(m, "var_95"),
                    CVaR_95 |-> MetricsGet(m, "cvar_95"),
                    Rachev_Ratio |-> MetricsGet(m, "rachev_ratio"),
                    Beta |-> MetricsGet(m, "beta"),
                    Information_Ratio |-> MetricsGet(m, "information_ratio"),
                    Hit_Rate |-> MetricsGet(m, "hit_rate"),
                    Annual_Turnover |-> MetricsGet(m, "average_annual_turnover"),
                    Daily_Turnover |-> Mean(turn),
                    Transaction_Costs |-> MetricsGet(m, "total_transaction_costs"),
                    Num_Rebalances |-> CountIf(turn, LAMBDA x : RLess(Zero, x)),
                    Best_Month |-> SumSeq(res),
                    Worst_Month |-> SumSeq(res) ],
      weights_history |-> tw,
      trade_log |-> turn ]

\* ------------------------------------------------------------- operations
\* the state right after Backtester.__init__
BtInit ==
    /\ prices \in PriceTables
    /\ \E D \in SUBSET Dates :
           target_weights \in [D -> {WithCash(r) : r \in TargetRowSet}]
    /\ cost_args \in CostBpsSet
    /\ transaction_cost = TransactionCostRate(cost_args[1])
    /\ slippage = SlippageRate(cost_args[2])
    /\ results = <<>>
    /\ turnover = <<>>
    /\ metrics = <<>>
    /\ prev_weights = [c \in Range(asset_list) |-> Zero]
    /\ trace = <<>>
    /\ report = <<>>
    /\ runs = 0
    /\ first_results = <<>>
    /\ first_turnover = <<>>
    /\ index_kind = "datetime"
    /\ results_index = "none"
    /\ metrics_fresh = FALSE

\* what run_backtest leaves behind, given the loop's records
RunBacktestBy(weights, log) ==
    /\ results' = Table([t \in Dates |-> FillNa0(log[t].net_return)])
    /\ turnover' = Table([t \in Dates |-> FillNa0(log[t].turnover)])
    /\ prev_weights' = FinalPrevWeights(InitialPrevWeights, weights)
    /\ trace' = Table([t \in Dates |-> [held |-> log[t].held,
                                         gross_return |-> log[t].gross_return,
                                         cost |-> log[t].cost]])

RunBacktestOn(weights, returns) ==
    RunBacktestBy(weights, RunLoop(1, InitialPrevWeights, weights, returns,
                                   transaction_cost, slippage))

\* Backtester.run_backtest
RunBacktest ==
    /\ RunBacktestOn(FilledWeights(target_weights), Returns(prices))
    /\ runs' = IF runs = 0 THEN 1 ELSE 2
    /\ first_results' = IF runs = 0 THEN results' ELSE first_results
    /\ first_turnover' = IF runs = 0 THEN turnover' ELSE first_turnover
    /\ results_index' = index_kind
    /\ metrics_fresh' = FALSE
    /\ UNCHANGED <<prices, target_weights, transaction_cost, slippage, metrics, report,
                   cost_args, index_kind>>
    /\ UNCHANGED <<pfVars, wfVars>>

\* if not isinstance(self.results.index, pd.DatetimeIndex):
\*     self.results.index = pd.to_datetime(self.results.index)
ToDatetime(index) == IF index # "datetime" THEN "datetime" ELSE index

\* Backtester.calculate_performance_metrics (no results: an empty table is
\* returned and self.metrics is left alone)
CalculatePerformanceMetrics ==
    /\ metrics' = IF Len(results) = 0 THEN metrics
                  ELSE Metrics(results, turnover, transaction_cost, slippage, prices,
                               index_kind)
    /\ results_index' = IF Len(results) = 0 THEN results_index ELSE ToDatetime(results_index)
    /\ metrics_fresh' = IF Len(results) = 0 THEN metrics_fresh ELSE TRUE
    /\ UNCHANGED <<prices, target_weights, transaction_cost, slippage, results,
                   turnover, prev_weights, report, runs, first_results, first_turnover,
                   cost_args, trace, index_kind>>
    /\ UNCHANGED <<pfVars, wfVars>>

\* Backtester.get_backtest_results_for_report (self.results.index[0] raises
\* on an empty series and start_date.strftime on a date held as a string, so
\* nothing is returned before a run or over an index of strings)
GetBacktestResultsForReport ==
    /\ Len(results) > 0
    /\ results_index = "datetime"
    /\ report' = Report(results, turnover, metrics, target_weights)
    /\ UNCHANGED <<prices, target_weights, transaction_cost, slippage, results,
                   turnover, metrics, prev_weights, runs, first_results, first_turnover,
                   cost_args, trace, index_kind, results_index, metrics_fresh>>
    /\ UNCHANGED <<pfVars, wfVars>>

vars == <<btVars, pfVars, wfVars>>

\* the life of one Backtester: any sequence of its three operations
Init == BtInit /\ PfIdle /\ WfIdle

Next == RunBacktest \/ CalculatePerformanceMetrics \/ GetBacktestResultsForReport

Spec == Init /\ [][Next]_vars

\* ------------------------------------------- a Backtester over wider inputs
\* prices with or without the benchmark column, indexed by datetimes or by
\* ISO date strings (which pd.to_datetime converts), under full target tables
BenchmarkPaths == { [t \in Dates |-> 1], [t \in Dates |-> 1 + (t % 2)] }

WithBenchmark(p, path) == [t \in Dates |-> (BenchmarkTicker :> path[t]) @@ p[t]]

MetricsPriceTables ==
    PriceTables \cup { WithBenchmark(p, path) : p \in PriceTables, path \in BenchmarkPaths }

MetricsTargetRowSet == { [A |-> One, B |-> Zero], [A |-> Zero, B |-> One] }

IndexKinds == { "datetime", "string" }

MetricsInit ==
    /\ prices \in MetricsPriceTables
    /\ target_weights \in [Dates -> {WithCash(r) : r \in MetricsTargetRowSet}]
    /\ cost_args \in CostBpsSet
    /\ transaction_cost = TransactionCostRate(cost_args[1])
    /\ slippage = SlippageRate(cost_args[2])
    /\ results = <<>>
    /\ turnover = <<>>
    /\ metrics = <<>>
    /\ prev_weights = [c \in Range(asset_list) |-> Zero]
    /\ trace = <<>>
    /\ report = <<>>
    /\ runs = 0
    /\ first_results = <<>>
    /\ first_turnover = <<>>
    /\ index_kind \in IndexKinds
    /\ results_index = "none"
    /\ metrics_fresh = FALSE

InitMetrics == MetricsInit /\ PfIdle /\ WfIdle

NextMetrics == RunBacktest \/ CalculatePerformanceMetrics \/ GetBacktestResultsForReport

SpecMetrics == InitMetrics /\ [][NextMetrics]_vars

\* ================================================== claims: Backtester
ZeroWeights == [c \in {"A", "B"} |-> Zero]
\* dot product of a weight row with a return row, over the assets A and B
Dot(w, r) == RAdd(RMul(w.A, r.A), RMul(w.B, r.B))
HalfL1(w, v) == RDiv(RAdd(RAbs(RSub(w.A, v.A)), RAbs(RSub(w.B, v.B))), <<2, 1>>)
Ran == results # <<>>
\* the rates as the constructor arguments give them
ArgCostRate == Rat(cost_args[1], 10000)
ArgSlippageRate == IF cost_args[2] = <<>> THEN Zero ELSE Rat(cost_args[2][1], 10000)

C1_At(returns, tc, sl) ==
    \A t \in Dates :
        /\ trace[t].gross_return = Dot(trace[t].held, returns[t])
        /\ results[t] = RSub(RSub(trace[t].gross_return, RMul(turnover[t], tc)),
                             RMul(turnover[t], sl))

\* C1: after run_backtest, on every date the recorded net return is the gross
\* return (held weights dot the date's asset returns) less turnover times the
\* transaction cost rate less turnover times the slippage rate, the rates
\* being the basis-point arguments divided by 10000.
C1_NetIsGrossLessCosts ==
    Ran => /\ transaction_cost = ArgCostRate
           /\ slippage = ArgSlippageRate
           /\ C1_At(Returns(prices), ArgCostRate, ArgSlippageRate)

C1_Witness ==
    /\ Ran
    /\ cost_args[1] # 0
    /\ cost_args[2] # <<>>
    /\ \E t \in Dates : trace[t].gross_return # Zero /\ turnover[t] # Zero

C2_At(weights, returns) ==
    \A t \in Dates :
        /\ trace[t].held = IF t = 1 THEN ZeroWeights ELSE weights[t - 1]
        /\ trace[t].gross_return = IF t = 1 THEN Zero ELSE Dot(weights[t - 1], returns[t])

\* C2: the weights held going into a date are the filled target weights of
\* the previous date (all zero on the first date), and the gross return of a
\* date is earned by them alone: 0 on the first date, and the target of date
\* t earns the return of date t+1.
C2_OneDayLag == Ran => C2_At(FilledWeights(target_weights), Returns(prices))

C2_WitnessAt(weights, returns) ==
    \E t \in Dates :
        /\ t > 1
        /\ trace[t].gross_return # Zero
        /\ Dot(weights[t], returns[t]) # Dot(weights[t - 1], returns[t])

C2_Witness == Ran /\ C2_WitnessAt(FilledWeights(target_weights), Returns(prices))

C3_At(weights) ==
    \A t \in Dates :
        /\ turnover[t] = HalfL1(weights[t], trace[t].held)
        /\ RLeq(Zero, turnover[t])
        /\ (weights[t] = trace[t].held => turnover[t] = Zero)

\* C3: the turnover of a date is half the sum over the assets of |target
\* weight - held weight|; it is never negative, and it is 0 on a date whose
\* target equals the weights held from the previous date.
C3_TurnoverHalfL1 == Ran => C3_At(FilledWeights(target_weights))

C3_WitnessAt(weights) ==
    /\ \E t \in Dates : t > 1 /\ weights[t] = weights[t - 1] /\ turnover[t] = Zero
    /\ \E t \in Dates : t > 1 /\ RLess(Zero, turnover[t])

C3_Witness == Ran /\ C3_WitnessAt(FilledWeights(target_weights))

\* C6: once run_backtest has run, every later run (with or without metrics
\* or a report computed in between) stores the same return and turnover
\* series as the first run did.
C6_RerunIdentical ==
    runs >= 1 => results = first_results /\ turnover = first_turnover

C6_Witness ==
    /\ runs = 2
    /\ metrics # <<>>
    /\ prev_weights # ZeroWeights
    /\ \E t \in Dates : results[t] # Zero

C7_At(returns) == \A t \in Dates : results[t] = Dot(trace[t].held, returns[t])

\* C7: with a transaction cost rate and a slippage rate of 0, the net return
\* of every date equals the gross return, whatever the turnover.
C7_ZeroRatesNetIsGross ==
    (Ran /\ transaction_cost = Zero /\ slippage = Zero) => C7_At(Returns(prices))

C7_Witness ==
    /\ Ran
    /\ transaction_cost = Zero
    /\ slippage = Zero
    /\ \E t \in Dates : turnover[t] # Zero /\ results[t] # Zero

C8_At(equity, res) ==
    \A t \in DOMAIN res :
        equity[t] = RMul(IF t = 1 THEN One ELSE equity[t - 1], RAdd(One, res[t]))

\* C8: the equity curve handed out with a report starts from 1, that is
\* equity[first] = 1 * (1 + net[first]), and compounds, equity[t] =
\* equity[t-1] * (1 + net[t]); the cumulative return of the metrics is the
\* last equity less 1.
C8_EquityCompounds ==
    /\ (report # <<>> =>
           /\ DOMAIN report.equity_curve = DOMAIN results
           /\ C8_At(report.equity_curve, results))
    /\ ((report # <<>> /\ metrics # <<>>) =>
           metrics.cumulative_return = RSub(report.equity_curve[NDates], One))

C8_Witness ==
    /\ report # <<>>
    /\ metrics # <<>>
    /\ report.equity_curve[1] # One
    /\ \E t \in Dates :
           /\ t > 1
           /\ results[t] # Zero
           /\ report.equity_curve[t] # report.equity_curve[t - 1]

\* the target table sets 100% in A and 100% in B in turn, on every date
Alternating ==
    /\ DOMAIN target_weights = Dates
    /\ \A t \in Dates :
           /\ {target_weights[t].A, target_weights[t].B} = {Zero, One}
           /\ (t > 1 => target_weights[t].A # target_weights[t - 1].A)

C9_OriginalAt(weights) ==
    \A t \in Dates :
        weights[t] # trace[t].held =>
            turnover[t] = One /\ trace[t].cost = RMul(One, transaction_cost)

\* C9 as stated: with targets alternating daily between 100% A and 100% B,
\* turnover is 1.0 and the cost 1.0 * rate on every date whose target differs
\* from the weights held.
C9_Original == (Ran /\ Alternating) => C9_OriginalAt(FilledWeights(target_weights))

C9_AmendedAt(weights) ==
    \A t \in Dates :
        /\ weights[t] # trace[t].held
        /\ turnover[t] = IF t = 1 THEN Half ELSE One
        /\ trace[t].cost = RMul(turnover[t], transaction_cost)

\* C9 amended: with targets alternating daily between 100% A and 100% B,
\* every date is a rebalance day; turnover is 1.0 and the cost 1.0 * rate on
\* every date after the first, and on the first date, entered with all-zero
\* weights, turnover is 0.5 and the cost 0.5 * rate.
C9_AlternatingTurnover == (Ran /\ Alternating) => C9_AmendedAt(FilledWeights(target_weights))

C9_Witness == Ran /\ Alternating /\ transaction_cost # Zero

\* the stored record was computed from the series of the latest run
Computed == metrics # <<>> /\ metrics_fresh

ZeroReturns == Len(results) >= 2 /\ \A t \in DOMAIN results : results[t] = Zero

\* C11 as stated: for a return series that is 0 on every date over at least
\* two distinct dates, calculate_performance_metrics reports the Sharpe ratio
\* as nan, the CAGR as nan and the maximum drawdown as 0.
C11_Original ==
    (Computed /\ ZeroReturns) =>
        /\ IsNaN(metrics.sharpe_ratio)
        /\ IsNaN(metrics.cagr)
        /\ metrics.max_drawdown = Zero

\* C11 amended: for a return series that is 0 on every date over at least two
\* distinct dates, calculate_performance_metrics reports the Sharpe ratio as
\* nan, the maximum drawdown as 0 and the CAGR as 0: the elapsed span is
\* positive, so the CAGR is defined, and the final equity is 1.
C11_ZeroReturnMetrics ==
    (Computed /\ ZeroReturns) =>
        /\ IsNaN(metrics.sharpe_ratio)
        /\ metrics.cagr = Zero
        /\ metrics.max_drawdown = Zero
        /\ IsNaN(metrics.calmar_ratio)

C11_Witness == Computed /\ ZeroReturns /\ ElapsedDays(results) > 0

\* the entries of a stored record that have no defined value are nan
UndefinedAreNaN(m) ==
    /\ (m.annualized_volatility = Zero => IsNaN(m.sharpe_ratio))
    /\ (m.max_drawdown = Zero => IsNaN(m.calmar_ratio))
    /\ (m.cvar_95 = Zero => IsNaN(m.rachev_ratio))
    /\ (~HasBenchmark(prices) => IsNaN(m.beta) /\ IsNaN(m.information_ratio))

\* the entries of a report that take their value from the stored record
ReportedFromRecord(r) ==
    { r.CAGR, r.Total_Return, r.Annual_Volatility, r.Sharpe_Ratio, r.Sortino_Ratio,
      r.Max_Drawdown, r.Calmar_Ratio, r.VaR_95, r.CVaR_95, r.Rachev_Ratio, r.Beta,
      r.Information_Ratio, r.Hit_Rate, r.Annual_Turnover, r.Transaction_Costs }

\* C15 as stated: every metric without a defined value (zero volatility, zero
\* drawdown, zero tail mean, benchmark absent, or metrics never computed)
\* reaches the consumer as nan, never as 0, both in Backtester.metrics and in
\* the 'metrics' mapping returned by get_backtest_results_for_report.
C15_Original ==
    /\ (metrics # <<>> => UndefinedAreNaN(metrics))
    /\ ((report # <<>> /\ metrics = <<>>) =>
            \A x \in ReportedFromRecord(report.metrics) : IsNaN(x))

\* C16 as stated: calculate_performance_metrics and
\* get_backtest_results_for_report leave the stored return and turnover series
\* as run_backtest produced them (values and index contents) and leave the
\* stored prices and target weights unchanged.
C16_Original ==
    [][(CalculatePerformanceMetrics \/ GetBacktestResultsForReport) =>
          UNCHANGED <<results, turnover, results_index, prices, target_weights>>]_vars

\* the names calculate_performance_metrics stores when the benchmark column
\* is in the price table
MetricNames ==
    { "cagr", "cumulative_return", "annualized_volatility", "sharpe_ratio",
      "sortino_ratio", "max_drawdown", "calmar_ratio", "var_95", "cvar_95",
      "rachev_ratio", "beta", "information_ratio", "hit_rate",
      "average_annual_turnover", "total_turnover", "total_transaction_costs",
      "avg_monthly_turnover", "avg_quarterly_turnover", "estimated_total_slippage",
      "estimated_annual_slippage", "information_ratio_21d", "information_ratio_63d",
      "information_ratio_126d", "information_ratio_252d" }

\* C17 as stated: calculate_performance_metrics returns the same set of metric
\* names for every non-empty completed run, with or without the benchmark
\* column in the price table; a metric that cannot be computed is present
\* under its name with a nan value.
C17_Original == metrics # <<>> => DOMAIN metrics = MetricNames

\* C18 as stated: after any sequence of run_backtest and
\* calculate_performance_metrics calls the stored record is empty or was
\* computed from the series of the most recent run_backtest call, never from
\* those of an earlier run.
C18_Original == metrics = <<>> \/ metrics_fresh

\* the dates before the first date that has any target weight
Leading(w, t) == \A u \in 1..t : InitialNanMask(w, u)

\* the weights C22 describes: equal weight on the leading dates only, every
\* other gap forward-filled, what is still missing 0
LeadingEqualWeightFilled(w) ==
    [t \in Dates |-> IF Leading(w, t)
                     THEN [c \in Range(asset_list) |-> Rat(1, Len(asset_list))]
                     ELSE w[t]]

C22_At(weights) == \A t \in Dates \ {1} : trace[t].held = weights[t - 1]

\* C22 as stated: in run_backtest only the leading dates whose target weights
\* are all missing are set to the equal weight 1/len(asset_list); a later date
\* whose target weights are all missing takes the weights of the most recent
\* earlier date, and a weight still missing after that becomes 0.
C22_Original ==
    Ran => C22_At(FFillNa0(Table2(LeadingEqualWeightFilled(Reindex(target_weights)))))

\* ======================================= signal-to-weight translator
\* (src/portfolio_construction.py; every step of generate_target_portfolio
\* works row by row once the price-derived tables are there)
PfDates == 1..NPfDates
PfPriceColumns == <<"A", "B", "C", "D">>      \* prices_df.columns
PredictionColumns == <<"A", "B", "C", "D">>   \* predictions_df.columns

Min(a, b) == IF a < b THEN a ELSE b
Max(a, b) == IF a > b THEN a ELSE b

\* asset_columns: the price columns that have a score, in price order
AssetColumns(price_columns, score_columns) ==
    SelectSeq(price_columns, LAMBDA c : c \in Range(score_columns))

asset_columns == AssetColumns(PfPriceColumns, PredictionColumns)

\* calculate_confidence_score
CalculateConfidenceScore(prediction) == RSub(prediction, Half)

\* numpy.tanh, by a rational function with what the translator uses of it:
\* odd, increasing, 0 at 0 and strictly between -1 and 1
Tanh(x) == IF NonFinite(x) THEN NaN ELSE RDiv(x, RAdd(One, RAbs(x)))

\* .replace([np.inf, -np.inf], 0)
ReplaceInf(x) == IF x \in {Inf, NegInf} THEN Zero ELSE x

\* momentum_signal: momentum_returns / (momentum_vol * sqrt(window)), the
\* infinities and then the missing values replaced by 0
MomentumSignal(momentum_returns, momentum_scale) ==
    FillNa0(ReplaceInf(RDiv(momentum_returns, momentum_scale)))

OverlayWeight == <<3, 20>>   \* 0.15

\* DataFrame.add(other, fill_value=0): a value missing on one side counts as
\* 0, the sum is missing when both sides are
AddFill0(x, y) == IF IsNaN(x) /\ IsNaN(y) THEN NaN ELSE RAdd(FillNa0(x), FillNa0(y))

\* confidence_scores after the momentum overlay, one entry
AdjustedScore(prediction, signal) ==
    AddFill0(CalculateConfidenceScore(prediction), RMul(OverlayWeight, Tanh(signal)))

\* confidence_scores after the momentum overlay, one date
ConfidenceScores(prediction_row, market_row) ==
    Table([c \in Range(asset_columns) |->
        AdjustedScore(prediction_row[c],
                      MomentumSignal(market_row[c].momentum_returns,
                                     market_row[c].momentum_scale))])

\* (variant: no date is flagged for fallback)
FallbackDay_Never(target_row) == FALSE

\* (variant: a zero volatility is kept as the divisor)
ZeroToNaN_Kept(volatility) == volatility

\* volatility_aligned[volatility_aligned == 0] = np.nan
ZeroToNaN(volatility) == IF volatility = Zero THEN NaN ELSE volatility

\* calculate_volatility_scaled_weights, one date
CalculateVolatilityScaledWeights(scores, market_row) ==
    Table([c \in Range(asset_columns) |->
        RDiv(scores[c], ZeroToNaN(market_row[c].volatility))])

PositiveWeight_Unfiltered(raw) == raw

\* raw_weights.where(raw_weights > 0, 0), one entry
PositiveWeight(raw) == IF RLess(Zero, raw) THEN raw ELSE Zero

PositiveWeights(raw_weights) ==
    Table([c \in Range(asset_columns) |-> PositiveWeight(raw_weights[c])])

\* .sum(axis=1) over the asset columns of one date
RowSum(row) == SumSeq([i \in 1..Len(asset_columns) |-> row[asset_columns[i]]])

\* row_sum[row_sum == 0] = 1.0; positive_weights.div(row_sum, axis=0)
Normalized(positive_weights, row_sum) ==
    Table([c \in Range(asset_columns) |->
        RDiv(positive_weights[c], IF row_sum = Zero THEN One ELSE row_sum)])

NormalizedOn(positive_weights) == Normalized(positive_weights, RowSum(positive_weights))

\* target_weights before the fallback, one date
TargetWeights(scores, market_row) ==
    NormalizedOn(PositiveWeights(CalculateVolatilityScaledWeights(scores, market_row)))

\* fallback_days, one date
FallbackDay(target_row) == FillNa0(RowSum(target_row)) = Zero

\* fallback_scores.fillna(-np.inf), one date
FallbackScores(scores) ==
    Table([c \in Range(asset_columns) |-> IF IsNaN(scores[c]) THEN NegInf ELSE scores[c]])

\* x > y among the finite scores and -inf
ScoreGreater(x, y) ==
    IF x = NegInf THEN FALSE ELSE IF y = NegInf THEN TRUE ELSE RLess(y, x)

\* the place in cols of the largest entry of row, the first one among equals
RECURSIVE ArgMaxFrom(_, _, _, _)
ArgMaxFrom(row, cols, i, best) ==
    IF i > Len(cols) THEN best
    ELSE ArgMaxFrom(row, cols, i + 1,
                    IF ScoreGreater(row[cols[i]], row[cols[best]]) THEN i ELSE best)

Remove(cols, i) == SubSeq(cols, 1, i - 1) \o SubSeq(cols, i + 1, Len(cols))

\* (variant: the first n columns are taken, whatever their scores)
NLargest_FirstN(row, cols, n) == SubSeq(cols, 1, Min(n, Len(cols)))

\* Series.nlargest(n): the n largest entries in decreasing order, equal
\* entries in their order of appearance (keep='first')
RECURSIVE NLargest(_, _, _)
NLargestBy(row, cols, n, i) == <<cols[i]>> \o NLargest(row, Remove(cols, i), n - 1)
NLargest(row, cols, n) ==
    IF n = 0 \/ cols = <<>> THEN <<>> ELSE NLargestBy(row, cols, n, ArgMaxFrom(row, cols, 2, 1))

FallbackCap == 3

MaxPositions_Two(n_assets) == Min(2, Max(1, n_assets))

\* max_positions = min(3, max(1, len(asset_columns)))
MaxPositions(n_assets) == Min(FallbackCap, Max(1, n_assets))

\* valid_assets = [asset for asset in top_assets if row[asset] != -np.inf]
ValidAssets(row, top_assets) == SelectSeq(top_assets, LAMBDA a : row[a] # NegInf)

\* one row of fallback_alloc: 1/len(valid_assets) on the valid assets; the row
\* stays at 0.0 when there is none
FallbackAllocBy(valid_assets) ==
    Table([c \in Range(asset_columns) |->
        IF valid_assets # <<>> /\ c \in Range(valid_assets)
        THEN Rat(1, Len(valid_assets)) ELSE Zero])

FallbackAllocOn(row) ==
    FallbackAllocBy(ValidAssets(row,
        NLargest(row, asset_columns, MaxPositions(Len(asset_columns)))))

FallbackAlloc(scores) == FallbackAllocOn(FallbackScores(scores))

\* target_weights.loc[fallback_alloc.index] = fallback_alloc, then fillna(0.0)
WithFallback(target_row, scores) ==
    Table([c \in Range(asset_columns) |->
        FillNa0((IF FallbackDay(target_row) THEN FallbackAlloc(scores) ELSE target_row)[c])])

\* target_weights[asset_columns].div(row_sum, axis=0)
Renormalized(row, row_sum) ==
    Table([c \in Range(asset_columns) |-> RDiv(row[c], row_sum)])

RenormalizedOn(row) == Renormalized(row, RowSum(row))

\* target_weights['Cash'] = 1 - target_weights[asset_columns].sum(axis=1)
WithCashColumn(row) ==
    Table([c \in Range(asset_columns) \cup {"Cash"} |->
        IF c = "Cash" THEN RSub(One, RowSum(row)) ELSE row[c]])

\* the returned table, one date
PortfolioRow(scores, market_row) ==
    WithCashColumn(RenormalizedOn(WithFallback(TargetWeights(scores, market_row), scores)))

\* what an asset brings to one date: its prediction and, derived from its
\* prices, pct_change(63), rolling(63).std() * sqrt(63) and rolling(60).std().
\* The three are missing on the first rows of a table; a constant price gives
\* a zero deviation, a constant growth a zero deviation under a momentum; a
\* deviation that is zero over the 63 rows is zero over the last 60 of them.
ProfileSet ==
    { [prediction |-> Half, momentum_returns |-> NaN, momentum_scale |-> NaN,
       volatility |-> NaN],
      [prediction |-> Half, momentum_returns |-> One, momentum_scale |-> One,
       volatility |-> One],
      [prediction |-> <<3, 5>>, momentum_returns |-> Half, momentum_scale |-> Zero,
       volatility |-> Zero],
      [prediction |-> <<2, 5>>, momentum_returns |-> <<-1, 1>>, momentum_scale |-> One,
       volatility |-> One],
      [prediction |-> NaN, momentum_returns |-> Zero, momentum_scale |-> Zero,
       volatility |-> Zero] }

\* the assets of one date; the last column, the one the fallback leaves out
\* among equals, is in its first rows or scored below zero
DaySet ==
    { day \in [Range(PfPriceColumns) -> ProfileSet] :
        day.D.prediction \in {Half, <<2, 5>>} /\ day.D.momentum_returns # One }

\* the arguments of a call
PfInit ==
    /\ \E days \in [PfDates -> DaySet] :
        /\ predictions_df =
               [t \in PfDates |-> [c \in Range(PredictionColumns) |-> days[t][c].prediction]]
        /\ market =
               [t \in PfDates |-> [c \in Range(PfPriceColumns) |->
                   [momentum_returns |-> days[t][c].momentum_returns,
                    momentum_scale |-> days[t][c].momentum_scale,
                    volatility |-> days[t][c].volatility]]]
    /\ portfolio = <<>>
    /\ pf_trace = <<>>

GenerateTargetPortfolioBy(scores) ==
    /\ portfolio' = Table([t \in PfDates |-> PortfolioRow(scores[t], market[t])])
    /\ pf_trace' = Table([t \in PfDates |->
           [confidence_scores |-> scores[t],
            fallback_days |-> FallbackDay(TargetWeights(scores[t], market[t]))]])

\* generate_target_portfolio
GenerateTargetPortfolio ==
    /\ predictions_df # <<>>
    /\ GenerateTargetPortfolioBy(
           Table([t \in PfDates |-> ConfidenceScores(predictions_df[t], market[t])]))
    /\ UNCHANGED <<predictions_df, market, btVars, wfVars>>

\* calls of the translator on the tables of one pipeline run
InitPortfolio == BtIdle /\ WfIdle /\ PfInit

NextPortfolio == GenerateTargetPortfolio

SpecPortfolio == InitPortfolio /\ [][NextPortfolio]_vars

\* ================================================== claims: translator
Generated == portfolio # <<>>
\* the sum of the asset columns of a returned row (missing if one is)
AssetTotal(w) == RAdd(RAdd(RAdd(w.A, w.B), w.C), w.D)

C4_At(w) ==
    /\ \A c \in {"A", "B", "C", "D"} : ~NonFinite(w[c]) /\ RLeq(Zero, w[c])
    /\ w.Cash = RSub(One, AssetTotal(w))
    /\ RAdd(AssetTotal(w), w.Cash) = One

\* C4: on every date of the table generate_target_portfolio returns, every
\* asset weight is a number >= 0 (not negative, not missing), Cash is 1 minus
\* the sum of the asset weights, and assets plus Cash sum to 1.
C4_WeightsSumToOne == Generated => \A t \in PfDates : C4_At(portfolio[t])

\* a date off the fallback path with two assets held, one asset with a
\* missing prediction and a zero volatility, one with a negative score
C4_Witness ==
    /\ Generated
    /\ \E t \in PfDates :
        /\ ~pf_trace[t].fallback_days
        /\ Cardinality({c \in {"A", "B", "C", "D"} : RLess(Zero, portfolio[t][c])}) >= 2
        /\ \E c \in {"A", "B", "C", "D"} :
               IsNaN(predictions_df[t][c]) /\ market[t][c].volatility = Zero
        /\ \E c \in {"A", "B", "C", "D"} : RLess(pf_trace[t].confidence_scores[c], Zero)

AllNeutral(t) == \A c \in {"A", "B", "C", "D"} : predictions_df[t][c] = Half
\* the momentum overlay adds nothing on date t: the signal of every asset is
\* zero, missing or infinite
NoOverlay(t) ==
    \A c \in {"A", "B", "C", "D"} :
        \/ NonFinite(market[t][c].momentum_returns)
        \/ NonFinite(market[t][c].momentum_scale)
        \/ market[t][c].momentum_returns = Zero
        \/ market[t][c].momentum_scale = Zero
\* 1/3 on three of the four assets, 0 on the fourth
EqualTopThree(w) ==
    /\ Cardinality({c \in {"A", "B", "C", "D"} : w[c] = <<1, 3>>}) = 3
    /\ Cardinality({c \in {"A", "B", "C", "D"} : w[c] = Zero}) = 1
C10_At(t) ==
    /\ \A c \in {"A", "B", "C", "D"} : pf_trace[t].confidence_scores[c] = Zero
    /\ pf_trace[t].fallback_days
    /\ EqualTopThree(portfolio[t])

PfAssets == {"A", "B", "C", "D"}

\* the assets of a returned row that hold a weight
Selected(w) == { c \in PfAssets : w[c] # Zero }

\* the assets with a score on a date
Scored(scores) == { c \in PfAssets : ~IsNaN(scores[c]) }

C27_At(w, scores) ==
    /\ Selected(w) \subseteq Scored(scores)
    /\ Cardinality(Selected(w)) = Min(3, Cardinality(Scored(scores)))
    /\ \A c \in Selected(w) : w[c] = Rat(1, Cardinality(Selected(w)))
    /\ \A c \in Selected(w) :
           \A d \in Scored(scores) \ Selected(w) : RLeq(scores[d], scores[c])
    /\ (Scored(scores) # {} => AssetTotal(w) = One)

VolatilityUndefined(volatility) == IsNaN(volatility) \/ volatility = Zero

\* a positive weight exactly for a positive score over a usable volatility
C28_PositiveAt(weight, score, volatility) ==
    RLess(Zero, weight) <=> (RLess(Zero, score) /\ ~VolatilityUndefined(volatility))

\* C28 as stated: an asset whose trailing volatility is zero or not yet
\* defined on a date gets weight 0 on it, never a very large weight; on a date
\* not flagged for fallback an asset has a positive weight exactly when its
\* adjusted score is positive and its volatility is defined and non-zero.
C28_Original ==
    Generated =>
        \A t \in PfDates :
        \A c \in PfAssets :
            /\ (VolatilityUndefined(market[t][c].volatility) => portfolio[t][c] = Zero)
            /\ (~pf_trace[t].fallback_days =>
                    C28_PositiveAt(portfolio[t][c], pf_trace[t].confidence_scores[c],
                                   market[t][c].volatility))

C28_UndefinedAt(flagged, weight, raw_weight, target_weight) ==
    /\ IsNaN(raw_weight)
    /\ target_weight = Zero
    /\ (~flagged => weight = Zero)
    /\ RLeq(Zero, weight) /\ RLeq(weight, One)

C28_At(t, scores, raw_weights, target_row) ==
    \A c \in PfAssets :
        /\ (VolatilityUndefined(market[t][c].volatility) =>
                C28_UndefinedAt(pf_trace[t].fallback_days, portfolio[t][c],
                                raw_weights[c], target_row[c]))
        /\ (~pf_trace[t].fallback_days =>
                C28_PositiveAt(portfolio[t][c], scores[c], market[t][c].volatility))

\* C28 amended: for an asset whose trailing volatility is zero or not yet
\* defined on a date the volatility-scaling step yields an undefined raw
\* weight, which becomes 0 in the normalised weights; in the returned table
\* the asset has weight 0 on every date not flagged for fallback, and on a
\* flagged date it takes part in the fallback allocation like every other
\* asset and holds 0 or the equal fallback weight, never a very large one. On
\* a date not flagged an asset has a positive weight exactly when its adjusted
\* score is positive and its volatility is defined and non-zero.
C28_ZeroVolatilityUnweighted ==
    Generated =>
        \A t \in PfDates :
            C28_At(t, pf_trace[t].confidence_scores,
                   CalculateVolatilityScaledWeights(pf_trace[t].confidence_scores, market[t]),
                   TargetWeights(pf_trace[t].confidence_scores, market[t]))

\* a date off the fallback path with an asset of positive score and zero
\* volatility
C28_Witness ==
    /\ Generated
    /\ \E t \in PfDates :
        /\ ~pf_trace[t].fallback_days
        /\ \E c \in PfAssets :
            /\ market[t][c].volatility = Zero
            /\ RLess(Zero, pf_trace[t].confidence_scores[c])

\* C29: on every date on which at least one asset has a non-missing
\* confidence score the Cash weight returned by generate_target_portfolio is
\* 0, the asset weights summing to 1 on the normalised path and on the
\* fallback path alike: the translator never holds a positive cash position.
C29_NoCash ==
    Generated =>
        \A t \in PfDates :
            Scored(pf_trace[t].confidence_scores) # {} =>
                /\ portfolio[t].Cash = Zero
                /\ AssetTotal(portfolio[t]) = One

\* a call that returns a single asset at full weight off the fallback path
C29_Witness ==
    /\ Generated
    /\ \E t \in PfDates :
        /\ ~pf_trace[t].fallback_days
        /\ \E c \in PfAssets : portfolio[t][c] = One
        /\ portfolio[t].Cash = Zero

\* ========================================= walk-forward prediction engine
\* (src/modeling.py, the walk of one asset "A" of the universe. The table has
\* the columns A, the asset's price and by its name a feature of the asset, and
\* A_target; no value is missing, so every row is a clean row and the clean-row
\* index i of the source is row i + 1 here.)
Rows == 1..NRows
DatasetRowSet == { [price |-> p, target |-> y] : p \in {One, <<2, 1>>}, y \in {Zero, One} }
DatasetSet == [Rows -> DatasetRowSet]

\* WalkForwardModel.__init__: the arguments train_window, retrain_every and
\* min_train_window
WindowsSet ==
    { [train_window |-> 2, retrain_every |-> 1, min_train_window |-> 2],
      [train_window |-> 3, retrain_every |-> 2, min_train_window |-> 2],
      [train_window |-> 6, retrain_every |-> 1, min_train_window |-> 5] }

\* data.dropna(how='any'): the rows without a missing value
DropNa(dataset) == SelectSeq(dataset, LAMBDA row : ~IsNaN(row.price) /\ ~IsNaN(row.target))

\* clean_data.index: the place in the table of every clean row
CleanDates(dataset) ==
    SelectSeq([t \in DOMAIN dataset |-> t],
              LAMBDA t : ~IsNaN(dataset[t].price) /\ ~IsNaN(dataset[t].target))

\* X.empty after features.dropna(axis=1, how='all'): the column holds no value
FeaturesEmpty(dataset) == \A t \in DOMAIN dataset : IsNaN(dataset[t].price)

\* history = clean_data.iloc[window_start:i]
History_ThroughCurrent(clean_data, window_start, i) == SubSeq(clean_data, window_start + 1, i + 1)

History(clean_data, window_start, i) == SubSeq(clean_data, window_start + 1, i)

\* (variant: every window counts as holding two classes)
NUnique_Two(history) == 2

\* y_train.nunique()
NUnique(history) == Cardinality({history[k].target : k \in DOMAIN history})

\* RandomForestClassifier(random_state=42).fit(X_train, y_train): the fitted
\* model is a function of the training rows and of nothing else
Fit(history) == history

CountPositive(rows) == Cardinality({k \in DOMAIN rows : rows[k].target = One})

\* the share of positive labels among rows
PositiveShare(rows) == Rat(CountPositive(rows), Len(rows))

\* model.predict_proba(current_row)[0][1], by a classifier that looks at
\* every training row and at the feature row: the share of positive labels
\* among the training rows with the features of current_row, among all
\* training rows when there is none
PredictProbaBy(model, same) == PositiveShare(IF same = <<>> THEN model ELSE same)
PredictProba(model, current_row) ==
    PredictProbaBy(model, SelectSeq(model, LAMBDA row : row.price = current_row))

NoModel == <<>>   \* model = None

\* (variant: a retrain skipped for a single-class window counts as a retrain)
StepBy_AdvanceOnSkip(i, history, w, last_retrain_day, model, current_row, due) ==
    IF Len(history) < w.min_train_window
    THEN [last_retrain_day |-> last_retrain_day, model |-> model, fitted |-> FALSE,
          prediction |-> NaN]
    ELSE IF due /\ NUnique(history) < 2
    THEN [last_retrain_day |-> i, model |-> model, fitted |-> FALSE,
          prediction |-> NaN]
    ELSE IF due
    THEN [last_retrain_day |-> i, model |-> Fit(history), fitted |-> TRUE,
          prediction |-> PredictProba(Fit(history), current_row)]
    ELSE [last_retrain_day |-> last_retrain_day, model |-> model, fitted |-> FALSE,
          prediction |-> PredictProba(model, current_row)]

\* one pass of the loop body at index i with the window's rows at hand: what
\* is held afterwards and what was emitted (NaN: nothing)
StepBy(i, history, w, last_retrain_day, model, current_row, due) ==
    IF Len(history) < w.min_train_window
    THEN [last_retrain_day |-> last_retrain_day, model |-> model, fitted |-> FALSE,
          prediction |-> NaN]
    ELSE IF due /\ NUnique(history) < 2
    THEN [last_retrain_day |-> last_retrain_day, model |-> model, fitted |-> FALSE,
          prediction |-> NaN]
    ELSE IF due
    THEN [last_retrain_day |-> i, model |-> Fit(history), fitted |-> TRUE,
          prediction |-> PredictProba(Fit(history), current_row)]
    ELSE [last_retrain_day |-> last_retrain_day, model |-> model, fitted |-> FALSE,
          prediction |-> PredictProba(model, current_row)]

\* (variant: a model once fitted is never replaced)
RetrainDue_Once(i, w, last_retrain_day, model) == last_retrain_day = -1 \/ model = NoModel

\* (variant: a model is fitted at every index)
RetrainDue_Always(i, w, last_retrain_day, model) == TRUE

\* (last_retrain_day == -1) or (i >= last_retrain_day + retrain_every) or model is None
RetrainDue(i, w, last_retrain_day, model) ==
    last_retrain_day = -1 \/ i >= last_retrain_day + w.retrain_every \/ model = NoModel

\* (variant: the window grows from the first clean row on)
WindowStart_Zero(i, w) == 0

\* window_start = max(0, i - self.train_window)
WindowStart(i, w) == Max(0, i - w.train_window)

Step(i, clean_data, w, last_retrain_day, model) ==
    StepBy(i, History(clean_data, WindowStart(i, w), i), w, last_retrain_day, model,
           clean_data[i + 1].price, RetrainDue(i, w, last_retrain_day, model))

\* for i in range(self.min_train_window, len(clean_data)): the steps taken
\* from index i on, in order
RECURSIVE Walk(_, _, _, _, _)
WalkBy(i, clean_data, w, step) ==
    <<[i |-> i, fitted |-> step.fitted, model |-> step.model,
       prediction |-> step.prediction]>>
    \o Walk(i + 1, clean_data, w, step.last_retrain_day, step.model)
Walk(i, clean_data, w, last_retrain_day, model) ==
    IF i >= Len(clean_data) THEN <<>>
    ELSE WalkBy(i, clean_data, w, Step(i, clean_data, w, last_retrain_day, model))

\* the walk of the asset over its clean rows; no step when they are fewer
\* than min_train_window
WalkOn(clean_data, w) ==
    IF Len(clean_data) < w.min_train_window THEN <<>>
    ELSE Walk(w.min_train_window, clean_data, w, -1, NoModel)

LowProb == <<21, 50>>    \* config.MOMENTUM_FALLBACK_PROB_LOW, 0.42
HighProb == <<29, 50>>   \* config.MOMENTUM_FALLBACK_PROB, 0.58

\* prices.pct_change(lookback)
Momentum(dataset, t) ==
    IF t <= MomentumLookback THEN NaN
    ELSE RSub(RDiv(dataset[t].price, dataset[t - MomentumLookback].price), One)

FillNaHalf(x) == IF IsNaN(x) THEN Half ELSE x

\* (variant: the neutral probability on every date)
BuildFallbackSeries_Neutral(dataset) == Table([t \in DOMAIN dataset |-> Half])

\* _build_fallback_series, the asset's price column being in the table
BuildFallbackSeries(dataset) ==
    Table([t \in DOMAIN dataset |->
        FillNaHalf(IF RLess(Zero, Momentum(dataset, t)) THEN HighProb ELSE LowProb)])

\* asset_predictions as the loop leaves it, at date t: the value emitted by
\* the step of that date, if any
AssetPredictionBy(hit) == IF hit = <<>> THEN NaN ELSE hit[1].prediction
AssetPrediction(steps, dates, t) ==
    AssetPredictionBy(SelectSeq(steps, LAMBDA st : dates[st.i + 1] = t))

\* the missing dates take the fallback series, what is still missing 0.5
FilledPrediction(prediction, fallback) ==
    FillNaHalf(IF IsNaN(prediction) THEN fallback ELSE prediction)

\* the column of the asset in the returned table
PredictionSeriesBy(dataset, steps, dates, fallback_series) ==
    Table([t \in DOMAIN dataset |->
        FilledPrediction(AssetPrediction(steps, dates, t), fallback_series[t])])

PredictionSeries(dataset, steps) ==
    IF FeaturesEmpty(dataset) THEN <<>>
    ELSE PredictionSeriesBy(dataset, steps, CleanDates(dataset), BuildFallbackSeries(dataset))

\* self.models_by_asset[asset] after the walk: the model fitted last, the
\* entry as it was when none was fitted
RegistryBy(registry, fits) == IF fits = <<>> THEN registry ELSE fits[Len(fits)].model
Registry(registry, steps) == RegistryBy(registry, SelectSeq(steps, LAMBDA st : st.fitted))

\* a table, the arguments of the constructor, and a second table that differs
\* from the first one in the values of one row
WfInit ==
    /\ full_dataset \in DatasetSet
    /\ windows \in WindowsSet
    /\ perturbed_row \in 0..(NRows - 1)
    /\ \E row \in DatasetRowSet \ {full_dataset[perturbed_row + 1]} :
           perturbed_dataset = [full_dataset EXCEPT ![perturbed_row + 1] = row]
    /\ predictions = <<>>
    /\ perturbed_predictions = <<>>
    /\ models_by_asset = <<>>
    /\ wf_trace = [original |-> <<>>, perturbed |-> <<>>]
    /\ UvIdle

GeneratePredictionsBy(steps) ==
    /\ predictions' = PredictionSeries(full_dataset, steps)
    /\ models_by_asset' = Registry(models_by_asset, steps)
    /\ wf_trace' = [wf_trace EXCEPT !.original = steps]

\* WalkForwardModel.generate_predictions(full_dataset)
GeneratePredictions ==
    /\ full_dataset # <<>>
    /\ GeneratePredictionsBy(WalkOn(DropNa(full_dataset), windows))
    /\ UNCHANGED <<full_dataset, perturbed_dataset, perturbed_row, windows,
                   perturbed_predictions, uvVars, btVars, pfVars>>

GeneratePredictionsPerturbedBy(steps) ==
    /\ perturbed_predictions' = PredictionSeries(perturbed_dataset, steps)
    /\ models_by_asset' = Registry(models_by_asset, steps)
    /\ wf_trace' = [wf_trace EXCEPT !.perturbed = steps]

\* WalkForwardModel.generate_predictions(perturbed_dataset)
GeneratePredictionsPerturbed ==
    /\ perturbed_dataset # <<>>
    /\ GeneratePredictionsPerturbedBy(WalkOn(DropNa(perturbed_dataset), windows))
    /\ UNCHANGED <<full_dataset, perturbed_dataset, perturbed_row, windows,
                   predictions, uvVars, btVars, pfVars>>

\* one WalkForwardModel given the two tables, in either order
InitWalk == BtIdle /\ PfIdle /\ WfInit

NextWalk == GeneratePredictions \/ GeneratePredictionsPerturbed

SpecWalk == InitWalk /\ [][NextWalk]_vars

\* ------------------------------------------- the walks over a universe
\* (generate_predictions over the assets of config.ASSET_UNIVERSE, two of them
\* here, one step of one walk at a time. Under the schedule "sequential" the
\* walks run one after another in the order of the universe, as the source
\* runs them; under "interleaved" any walk that has not ended may take the
\* next step.)
Universe == <<"A", "B">>

PricePath(t) == IF t % 2 = 1 THEN One ELSE <<2, 1>>

\* tables of one asset on which its walk can run
WalkableTables ==
    { [has_target |-> TRUE,
       rows |-> [t \in Rows |-> [price |-> PricePath(t), target |-> y[t]]]] :
      y \in { z \in [Rows -> {Zero, One}] : z[1] = Zero } }

\* the asset's target column is not in the table
NoTargetTable ==
    [has_target |-> FALSE, rows |-> [t \in Rows |-> [price |-> PricePath(t), target |-> NaN]]]

\* the asset's only feature column holds no value
NoFeatureTable ==
    [has_target |-> TRUE,
     rows |-> [t \in Rows |-> [price |-> NaN, target |-> IF t % 2 = 1 THEN Zero ELSE One]]]

\* one row only has a label
FewRowsTable ==
    [has_target |-> TRUE,
     rows |-> [t \in Rows |-> [price |-> PricePath(t), target |-> IF t = 1 THEN One ELSE NaN]]]

\* the feature is infinite in the first row
InfiniteFeatureTable ==
    [has_target |-> TRUE,
     rows |-> [t \in Rows |-> [price |-> IF t = 1 THEN Inf ELSE PricePath(t),
                               target |-> IF t % 2 = 1 THEN Zero ELSE One]]]

\* the label of the third row is missing, so the row is not a clean row
MissingRowTable ==
    [has_target |-> TRUE,
     rows |-> [t \in Rows |-> [price |-> PricePath(t),
                               target |-> IF t = 3 THEN NaN
                                          ELSE IF t % 2 = 1 THEN Zero ELSE One]]]

AssetTables ==
    WalkableTables \cup {NoTargetTable, NoFeatureTable, FewRowsTable, InfiniteFeatureTable,
                         MissingRowTable}

Schedules == { "sequential", "interleaved" }

\* model.fit(X_train, y_train) raises ValueError on an infinite input
FitRaises(history) == \E k \in DOMAIN history : NonFinite(history[k].price)

\* model.predict_proba(current_row) raises ValueError on an infinite input
PredictRaises(current_row) == NonFinite(current_row)

\* the walk of an asset before its first statement
NotStarted ==
    [stage |-> "todo", i |-> 0, last_retrain_day |-> -1, model |-> NoModel, steps |-> <<>>]

Ended(walk) == walk.stage \in {"skipped", "done"}

\* the assets before a in the universe
Before(a) == { Universe[k] : k \in { j \in DOMAIN Universe : \E m \in DOMAIN Universe :
                                         m > j /\ Universe[m] = a } }

\* the walk of a may take a step
MayStep(a) ==
    /\ outcome = "running"
    /\ (schedule = "sequential" => \A b \in Before(a) : Ended(walks[b]))

UvInit ==
    /\ universe_dataset \in [Range(Universe) -> AssetTables]
    /\ schedule \in Schedules
    /\ windows \in WindowsSet
    /\ walks = [a \in Range(Universe) |-> NotStarted]
    /\ model_registry = <<>>
    /\ registry_writes = [a \in Range(Universe) |-> 0]
    /\ all_predictions = <<>>
    /\ outcome = "running"
    /\ overlapped = FALSE
    /\ full_dataset = <<>>
    /\ perturbed_dataset = <<>>
    /\ perturbed_row = 0
    /\ predictions = <<>>
    /\ perturbed_predictions = <<>>
    /\ models_by_asset = <<>>
    /\ wf_trace = <<>>

\* a walk other than a's is between its first and its last statement
Underway(a) == \E b \in Range(Universe) \ {a} : walks[b].stage = "walking"

\* (variant: every walk writes under the key of the first asset)
Assign_FirstKey(d, key, value) == (Universe[1] :> value) @@ d

\* d[key] = value on a dictionary
Assign(d, key, value) == (key :> value) @@ d

\* the head of the loop body for an asset: the target column is missing or no
\* feature is left (continue), the clean rows are too few (the fallback series
\* is stored, continue), or the walk starts
BeginAssetBy(a, table, clean_data) ==
    IF ~table.has_target \/ FeaturesEmpty(table.rows)
    THEN /\ walks' = [walks EXCEPT ![a].stage = "skipped"]
         /\ UNCHANGED all_predictions
    ELSE IF Len(clean_data) < windows.min_train_window
    THEN /\ walks' = [walks EXCEPT ![a].stage = "done"]
         /\ all_predictions' = Assign(all_predictions, a, BuildFallbackSeries(table.rows))
    ELSE /\ walks' = [walks EXCEPT ![a].stage = "walking", ![a].i = windows.min_train_window]
         /\ UNCHANGED all_predictions

BeginAsset(a) ==
    /\ MayStep(a)
    /\ walks[a].stage = "todo"
    /\ BeginAssetBy(a, universe_dataset[a], DropNa(universe_dataset[a].rows))
    /\ overlapped' = (overlapped \/ Underway(a))
    /\ UNCHANGED <<universe_dataset, schedule, model_registry, registry_writes, outcome,
                   windows>>
    /\ UNCHANGED <<full_dataset, perturbed_dataset, perturbed_row, predictions,
                   perturbed_predictions, models_by_asset, wf_trace, btVars, pfVars>>

\* model.fit is called at index i
FitDue(i, history, w, last_retrain_day, model) ==
    /\ Len(history) >= w.min_train_window
    /\ RetrainDue(i, w, last_retrain_day, model)
    /\ NUnique(history) >= 2

\* one pass of the loop body of a's walk that raises nothing: the locals and
\* the registry afterwards; an error of predict_proba is caught and nothing
\* is emitted
LoopStepBy(a, walk, step, current_row) ==
    /\ walks' = [walks EXCEPT ![a] =
           [walk EXCEPT !.i = walk.i + 1,
                        !.last_retrain_day = step.last_retrain_day,
                        !.model = step.model,
                        !.steps = Append(walk.steps,
                            [i |-> walk.i, fitted |-> step.fitted, model |-> step.model,
                             prediction |-> IF PredictRaises(current_row) THEN NaN
                                            ELSE step.prediction])]]
    /\ model_registry' = IF step.fitted THEN Assign(model_registry, a, step.model)
                         ELSE model_registry
    /\ registry_writes' = IF step.fitted
                          THEN [registry_writes EXCEPT ![a] = registry_writes[a] + 1]
                          ELSE registry_writes
    /\ UNCHANGED outcome

\* one pass of the loop body: model.fit stands outside every try block, so an
\* error it raises leaves generate_predictions
LoopStepOn(a, walk, clean_data) ==
    IF FitDue(walk.i, History(clean_data, WindowStart(walk.i, windows), walk.i), windows,
              walk.last_retrain_day, walk.model)
       /\ FitRaises(History(clean_data, WindowStart(walk.i, windows), walk.i))
    THEN /\ outcome' = "raised"
         /\ walks' = [walks EXCEPT ![a].stage = "raised"]
         /\ UNCHANGED <<model_registry, registry_writes>>
    ELSE LoopStepBy(a, walk, Step(walk.i, clean_data, windows, walk.last_retrain_day,
                                  walk.model), clean_data[walk.i + 1].price)

LoopStep(a) ==
    /\ MayStep(a)
    /\ walks[a].stage = "walking"
    /\ walks[a].i < Len(DropNa(universe_dataset[a].rows))
    /\ LoopStepOn(a, walks[a], DropNa(universe_dataset[a].rows))
    /\ overlapped' = (overlapped \/ Underway(a))
    /\ UNCHANGED <<universe_dataset, schedule, all_predictions, windows>>
    /\ UNCHANGED <<full_dataset, perturbed_dataset, perturbed_row, predictions,
                   perturbed_predictions, models_by_asset, wf_trace, btVars, pfVars>>

\* after the loop: the missing dates are filled and the column is stored
FinishAsset(a) ==
    /\ MayStep(a)
    /\ walks[a].stage = "walking"
    /\ walks[a].i >= Len(DropNa(universe_dataset[a].rows))
    /\ walks' = [walks EXCEPT ![a].stage = "done"]
    /\ all_predictions' = Assign(all_predictions, a,
                                 PredictionSeries(universe_dataset[a].rows, walks[a].steps))
    /\ overlapped' = (overlapped \/ Underway(a))
    /\ UNCHANGED <<universe_dataset, schedule, model_registry, registry_writes, outcome,
                   windows>>
    /\ UNCHANGED <<full_dataset, perturbed_dataset, perturbed_row, predictions,
                   perturbed_predictions, models_by_asset, wf_trace, btVars, pfVars>>

\* return pd.DataFrame(all_predictions, index=full_dataset.index)
ReturnPredictions ==
    /\ outcome = "running"
    /\ \A a \in Range(Universe) : Ended(walks[a])
    /\ outcome' = "returned"
    /\ UNCHANGED <<universe_dataset, schedule, walks, model_registry, registry_writes,
                   all_predictions, overlapped, windows>>
    /\ UNCHANGED <<full_dataset, perturbed_dataset, perturbed_row, predictions,
                   perturbed_predictions, models_by_asset, wf_trace, btVars, pfVars>>

InitUniverse == BtIdle /\ PfIdle /\ UvInit

NextUniverse ==
    \/ \E a \in Range(Universe) : BeginAsset(a)
    \/ \E a \in Range(Universe) : LoopStep(a)
    \/ \E a \in Range(Universe) : FinishAsset(a)
    \/ ReturnPredictions

SpecUniverse == InitUniverse /\ [][NextUniverse]_vars

\* ============================================ claims: walk-forward engine
BothRan == predictions # <<>> /\ perturbed_predictions # <<>>
\* the walk recorded in steps emitted a model prediction at clean-row index i
EmittedAt(steps, i) == \E k \in DOMAIN steps : steps[k].i = i /\ ~IsNaN(steps[k].prediction)
\* both walks emitted at index i, and the same value reached the two tables
SameEmission(i) ==
    /\ EmittedAt(wf_trace.perturbed, i)
    /\ perturbed_predictions[i + 1] = predictions[i + 1]
FeaturesKept == perturbed_dataset[perturbed_row + 1].price = full_dataset[perturbed_row + 1].price

\* C5 as stated: a prediction emitted at index i is the same after a change
\* of feature or label values confined to the rows at index i or later.
C5_Original ==
    BothRan =>
        \A i \in 0..(NRows - 1) :
            (EmittedAt(wf_trace.original, i) /\ perturbed_row >= i) => SameEmission(i)

\* C5, amended: a prediction emitted at index i is the same after a change of
\* label values in the rows at index i or later or of feature values in the
\* rows after i; the rows before i and the feature row of i are what it is
\* computed from.
C5_NoLookahead ==
    BothRan =>
        \A i \in 0..(NRows - 1) :
            (/\ EmittedAt(wf_trace.original, i)
             /\ (perturbed_row > i \/ (perturbed_row = i /\ FeaturesKept)))
            => SameEmission(i)

\* the label of a row was changed, its features kept, and at that row a model
\* kept from an earlier index predicted
C5_Witness ==
    /\ BothRan
    /\ FeaturesKept
    /\ EmittedAt(wf_trace.original, perturbed_row)
    /\ \E k \in DOMAIN wf_trace.original :
           wf_trace.original[k].i = perturbed_row /\ ~wf_trace.original[k].fitted

\* ============================================ claims: universe of assets
Sequential == schedule = "sequential"
Returned == outcome = "returned"

\* the asset's table lacks the target column or holds no usable feature
Unusable(table) == ~table.has_target \/ FeaturesEmpty(table.rows)

\* C12 as stated: an asset of the universe that lacks a target column (or has
\* no usable feature column) in the table given to generate_predictions is
\* not dropped: the returned table holds a column for it with the
\* momentum-fallback probability on every date.
C12_Original ==
    (Sequential /\ Returned) =>
        \A a \in Range(Universe) :
            Unusable(universe_dataset[a]) =>
                /\ a \in DOMAIN all_predictions
                /\ all_predictions[a] = BuildFallbackSeries(universe_dataset[a].rows)

\* C13 as stated: a failure or lack of data in one asset's walk (missing
\* target, no features, too few clean rows, or an error raised while fitting
\* or predicting) never prevents generate_predictions from completing and
\* returning the predictions of every other asset.
C13_Original ==
    Sequential =>
        /\ outcome # "raised"
        /\ (Returned => \A a \in Range(Universe) :
                            ~Unusable(universe_dataset[a]) => a \in DOMAIN all_predictions)

\* C14 as stated: a run in which no configured asset yields a prediction
\* column ends with an explicit failure; generate_predictions never returns an
\* empty table as if the run had succeeded.
C14_Original == (Sequential /\ Returned) => DOMAIN all_predictions # {}

\* what the walk of an asset gives when it runs alone, from its first
\* statement to its last
WalkAlone(table) == WalkOn(DropNa(table.rows), windows)

FinalColumn(table) == PredictionSeries(table.rows, WalkAlone(table))

FinalEntry(table) == Registry(NoModel, WalkAlone(table))

\* the assets that get a column, and those that get a registry entry
WithColumn == { a \in Range(Universe) : ~Unusable(universe_dataset[a]) }
WithEntry == { a \in WithColumn : FinalEntry(universe_dataset[a]) # NoModel }

\* C19: the registry entry of an asset is at every moment the model its own
\* walk fitted last, whatever the other walks did, and a call that returns
\* after any interleaving of the walks returns the registry and the
\* predictions that each walk gives when it runs alone.
C19_InterleavingIndependent ==
    /\ \A a \in DOMAIN model_registry :
           model_registry[a] = Registry(NoModel, walks[a].steps)
    /\ Returned =>
           /\ DOMAIN all_predictions = WithColumn
           /\ \A a \in WithColumn : all_predictions[a] = FinalColumn(universe_dataset[a])
           /\ DOMAIN model_registry = WithEntry
           /\ \A a \in WithEntry : model_registry[a] = FinalEntry(universe_dataset[a])

C19_Witness ==
    /\ Returned
    /\ overlapped
    /\ DOMAIN model_registry = Range(Universe)
    /\ model_registry["A"] # model_registry["B"]

Fits(steps) == SelectSeq(steps, LAMBDA st : st.fitted)

Spaced(fits) ==
    \A k \in 1..(Len(fits) - 1) : fits[k + 1].i >= fits[k].i + windows.retrain_every

Emitted(rows, steps) ==
    { CleanDates(rows)[st.i + 1] : st \in { steps[k] : k \in { n \in DOMAIN steps :
                                                ~IsNaN(steps[n].prediction) } } }

\* the price of the asset rose over the momentum lookback
Rose(rows, t) ==
    t > MomentumLookback /\ RLess(rows[t - MomentumLookback].price, rows[t].price)

C21_At(rows, column, emitted) ==
    \A t \in DOMAIN rows :
        /\ ~IsNaN(column[t])
        /\ RLeq(Zero, column[t]) /\ RLeq(column[t], One)
        /\ (t \notin emitted => column[t] = IF Rose(rows, t) THEN HighProb ELSE LowProb)

Positions(clean_data, lo, hi) == [k \in 1..(hi - lo) |-> clean_data[lo + k]]

C23_At(clean_data, st) ==
    /\ st.model = Positions(clean_data, Max(0, st.i - windows.train_window), st.i)
    /\ Len(st.model) <= windows.train_window
    /\ Len(st.model) >= windows.min_train_window

\* C23: whenever generate_predictions fits a model at clean-row index i, the
\* training set is exactly the clean rows at the positions
\* [max(0, i - train_window), i): it holds neither row i nor a later row,
\* never more than train_window rows and never fewer than min_train_window.
C23_TrainingWindow ==
    \A a \in DOMAIN walks :
    \A k \in DOMAIN walks[a].steps :
        walks[a].steps[k].fitted =>
            C23_At(DropNa(universe_dataset[a].rows), walks[a].steps[k])

\* a fit at an index beyond train_window, where the window leaves out the
\* first clean rows
C23_Witness ==
    \E a \in DOMAIN walks :
    \E k \in DOMAIN walks[a].steps :
        /\ walks[a].steps[k].fitted
        /\ walks[a].steps[k].i > windows.train_window

\* every label of the training window of index i is the same
SingleClass(clean_data, i) ==
    \A j, k \in (Max(0, i - windows.train_window) + 1)..i :
        clean_data[j].target = clean_data[k].target

\* a's walk is at an index where a retrain is due and the window has one class
DueOnSingleClass(a) ==
    /\ walks[a].stage = "walking"
    /\ walks[a].i < Len(DropNa(universe_dataset[a].rows))
    /\ RetrainDue(walks[a].i, windows, walks[a].last_retrain_day, walks[a].model)
    /\ SingleClass(DropNa(universe_dataset[a].rows), walks[a].i)

\* a's walk has just passed index i
Passed(a) == walks'[a].i = walks[a].i + 1

C24_Step(a) ==
    DueOnSingleClass(a) /\ Passed(a) =>
        /\ walks'[a].model = walks[a].model
        /\ model_registry' = model_registry
        /\ registry_writes' = registry_writes
        /\ walks'[a].last_retrain_day = walks[a].last_retrain_day
        /\ RetrainDue(walks'[a].i, windows, walks'[a].last_retrain_day, walks'[a].model)

\* C24: when a retrain is due at index i and the training window holds a
\* single class, the pass over i fits no model: the model held and the
\* registry stay as they were, the index of the last retrain is not advanced,
\* and a retrain is due again at index i + 1.
C24_SingleClassSkipsRetrain == [][\A a \in Range(Universe) : C24_Step(a)]_vars

\* a walk that held a model has passed an index where the retrain was due
\* and the window had one class
C24_Witness ==
    \E a \in DOMAIN walks :
    \E k \in DOMAIN walks[a].steps :
        /\ k > 1
        /\ windows.retrain_every = 1
        /\ walks[a].steps[k - 1].fitted
        /\ ~walks[a].steps[k].fitted
        /\ SingleClass(DropNa(universe_dataset[a].rows), walks[a].steps[k].i)

\* the feature row of clean-row index i
FeatureRow(clean_data, i) == clean_data[i + 1].price

\* the pass recorded in st emitted the probability of the model held after it
ModelProbability(clean_data, st) ==
    st.prediction = PredictProba(st.model, FeatureRow(clean_data, st.i))

\* C25: at every clean-row index i >= min_train_window at which a model of
\* the asset is held, fitted at i or kept from an earlier index, and whose
\* feature row has no missing value (a finite one here), the value emitted is
\* the positive-class probability of the held model for row i.
C25_Original ==
    \A a \in DOMAIN walks :
    \A k \in DOMAIN walks[a].steps :
        /\ walks[a].steps[k].i >= windows.min_train_window
        /\ walks[a].steps[k].model # NoModel
        /\ ~NonFinite(FeatureRow(DropNa(universe_dataset[a].rows), walks[a].steps[k].i))
        => ModelProbability(DropNa(universe_dataset[a].rows), walks[a].steps[k])

\* a fit is attempted in the pass recorded in st: a model is fitted unless
\* the training window has one class
Attempted(clean_data, st) == st.fitted \/ SingleClass(clean_data, st.i)

\* the passes of a walk after a fit at index r, up to the next retrain
C26_After(clean_data, steps, r) ==
    \A k \in DOMAIN steps :
        /\ (r.i < steps[k].i /\ steps[k].i < r.i + windows.retrain_every) =>
               ~steps[k].fitted /\ steps[k].model = r.model
        /\ steps[k].i = r.i + windows.retrain_every => Attempted(clean_data, steps[k])

C26_At(clean_data, steps) ==
    /\ steps # <<>> =>
           steps[1].i = windows.min_train_window /\ Attempted(clean_data, steps[1])
    /\ \A k \in DOMAIN steps : steps[k].fitted => C26_After(clean_data, steps, steps[k])
    /\ \A k \in DOMAIN steps :
           ~IsNaN(steps[k].prediction) => steps[k].i >= windows.min_train_window

\* C26: in the walk of each asset the first fit is attempted at index
\* min_train_window; after a fit at index r the model fitted there is used
\* unchanged at every index strictly between r and r + retrain_every, and the
\* next fit is attempted at index r + retrain_every; no index below
\* min_train_window receives a model prediction.
C26_RetrainSchedule ==
    \A a \in DOMAIN walks : C26_At(DropNa(universe_dataset[a].rows), walks[a].steps)

\* a model fitted at index r gave the prediction of index r + 1, before the
\* next retrain was due
C26_Witness ==
    \E a \in DOMAIN walks :
    \E k \in DOMAIN walks[a].steps :
        /\ windows.retrain_every > 1
        /\ walks[a].steps[k].fitted
        /\ k < Len(walks[a].steps)
        /\ ~walks[a].steps[k + 1].fitted
        /\ ~IsNaN(walks[a].steps[k + 1].prediction)

\* the labels of the rows hold a 0 and a 1
BothClasses(rows) ==
    /\ \E k \in DOMAIN rows : rows[k].target = Zero
    /\ \E k \in DOMAIN rows : rows[k].target = One

\* a model, given as the rows it was fitted on, comes from a sound fit
SoundFit(model) == Len(model) >= windows.min_train_window /\ BothClasses(model)

\* C30: in every reachable state of an asset's walk, a model prediction was
\* only ever emitted by a pass that held a model, and every model held by
\* the walk or stored in the registry was fitted on at least min_train_window
\* rows whose labels contain both classes.
C30_ModelsAreSound ==
    /\ \A a \in DOMAIN walks :
           /\ walks[a].model # NoModel => SoundFit(walks[a].model)
           /\ \A k \in DOMAIN walks[a].steps :
                  /\ ~IsNaN(walks[a].steps[k].prediction) =>
                         walks[a].steps[k].model # NoModel
                  /\ walks[a].steps[k].model # NoModel => SoundFit(walks[a].steps[k].model)
    /\ \A a \in DOMAIN model_registry : SoundFit(model_registry[a])

\* a walk holds a model that is in the registry and has emitted a model
\* prediction, after passing a single-class window
C30_Witness ==
    \E a \in DOMAIN model_registry :
        /\ walks[a].model = model_registry[a]
        /\ walks[a].model # NoModel
        /\ \E k \in DOMAIN walks[a].steps : ~IsNaN(walks[a].steps[k].prediction)
        /\ \E k \in DOMAIN walks[a].steps :
               SingleClass(DropNa(universe_dataset[a].rows), walks[a].steps[k].i)

====
